---- MODULE Spec2Model ----
(***************************************************************************)
(* A model of the raw (libusb) half of the usb package, raw_enabled.go:    *)
(*   - enumerateRaw, one host-stack call per step, run by several callers  *)
(*     at once (SpecEnum);                                                 *)
(*   - the endpoint switch of enumerateRaw as a pure function over the     *)
(*     endpoints of one alternate setting (SpecMatch);                     *)
(*   - RawDevice.Close / Write / Read over the device mutex (SpecDev).     *)
(* The host stack (libusb) is the environment: each of its calls either    *)
(* fails or succeeds, chosen nondeterministically.                         *)
(***************************************************************************)
EXTENDS Integers, Sequences, FiniteSets, TLC

VARIABLES
    \* ---- host stack state seen by enumerateRaw
    sessions,      \* libusb contexts created by libusb_init and not exited
    lists,         \* device lists handed out and not yet freed
    listOwner,     \* list id -> <<caller, call number>> that acquired it
    listFrees,     \* list id -> number of libusb_free_device_list calls on it
    freeLog,       \* {<<list id, caller, call number>>}: who freed what
    liveCfgs,      \* config descriptors handed out and not freed: <<ctx, devnum, cfgnum>>
    nextCtx,       \* next context the host stack hands out
    nextList,      \* next device list the host stack hands out
    \* ---- enumerateRaw, per caller
    epc,           \* position of the caller inside enumerateRaw
    callNo,        \* number of the caller's current (or last) call
    args,          \* vendorID, productID, skipHid of the call
    ctx,           \* local ctx (Nil before libusb_init succeeded)
    deviceList,    \* local deviceList (Nil before libusb_get_device_list succeeded)
    devnum,        \* loop index over devices
    cfgnum,        \* loop index over configurations
    infos,         \* local infos
    result,        \* the return values set by the return statement being executed
    ret,           \* what the caller received from its last call (None before)
    walked,        \* the devices of this call that passed the filters (their indices)
    failedAt,      \* the host-stack call of this invocation that failed: <<call, devnum, cfgnum>>
    ncalls,        \* enumerate calls started so far
    \* ---- endpoint switch on its own
    ends,          \* the endpoints of the alternate setting classified
    matched,       \* None before classification, then the reader/writer pair found
    \* ---- RawDevice
    handle,        \* dev.handle per RawDevice (Nil after Close)
    lock,          \* dev.lock per RawDevice: the holder, or Nil
    dpc,           \* position of each device thread inside Close / Write / Read
    dcall,         \* the call each device thread is making
    xfer,          \* the interrupt transfer in flight per thread (None if none)
    dres,          \* what each device thread will return / last returned
    hostOut,       \* what the host stack reported to the call in progress (None if nothing)
    openHandles,   \* libusb handles opened and not closed
    closeCount,    \* handle -> number of libusb_close calls on it
    closeReturned, \* per RawDevice: some Close call has returned
    nops,          \* Close / Write / Read calls started so far
    crashed        \* the process died inside the host stack

evars == <<sessions, lists, listOwner, listFrees, freeLog, liveCfgs, nextCtx, nextList,
           epc, callNo, args, ctx, deviceList, devnum, cfgnum, infos, result, ret,
           failedAt, walked, ncalls>>
mvars == <<ends, matched>>
dvars == <<handle, lock, dpc, dcall, xfer, dres, hostOut, openHandles, closeCount,
           closeReturned, nops, crashed>>
vars == <<evars, mvars, dvars>>

Nil == 0
\* An optional value (a Go pointer or a value not set yet): <<>> or <<v>>.
None == <<>>
Some(v) == <<v>>

\* ---------------------------------------------------------------- bounds
MaxCalls == 2
MaxEnds == 3
MaxOps == 3
MaxBuf == 1

\* ------------------------------------------------------- libusb constants
\* The values libusb.h gives the names raw_enabled.go uses.
LIBUSB_ENDPOINT_OUT == 0
LIBUSB_ENDPOINT_IN == 128
LIBUSB_TRANSFER_TYPE_INTERRUPT == 3
LIBUSB_TRANSFER_TYPE_BULK == 2
LIBUSB_CLASS_HID == 3

\* Bitwise and of two naturals, as the C/Go operator & computes it.
RECURSIVE BitAnd(_, _)
BitAnd(a, b) ==
    IF a = 0 \/ b = 0 THEN 0
    ELSE (IF a % 2 = 1 /\ b % 2 = 1 THEN 1 ELSE 0) + 2 * BitAnd(a \div 2, b \div 2)

\* ------------------------------------------------------------ endpoint switch
\* The endpoints an alternate setting may declare: OUT 0x01 / IN 0x81, with
\* bmAttributes bulk (2), interrupt (3) and interrupt with a usage bit (0x13).
EndpointAddrs == {1, 129}
EndpointAttrs == {2, 3, 19}
EndpointSet == [bEndpointAddress : EndpointAddrs, bmAttributes : EndpointAttrs]

\* case end.bEndpointAddress&C.LIBUSB_ENDPOINT_OUT == C.LIBUSB_ENDPOINT_OUT &&
\*      end.bmAttributes == C.LIBUSB_TRANSFER_TYPE_INTERRUPT
IsWriterCase(end) ==
    /\ BitAnd(end.bEndpointAddress, LIBUSB_ENDPOINT_OUT) = LIBUSB_ENDPOINT_OUT
    /\ end.bmAttributes = LIBUSB_TRANSFER_TYPE_INTERRUPT

\* case end.bEndpointAddress&C.LIBUSB_ENDPOINT_IN == C.LIBUSB_ENDPOINT_IN &&
\*      end.bmAttributes == C.LIBUSB_TRANSFER_TYPE_INTERRUPT
IsReaderCase(end) ==
    /\ BitAnd(end.bEndpointAddress, LIBUSB_ENDPOINT_IN) = LIBUSB_ENDPOINT_IN
    /\ end.bmAttributes = LIBUSB_TRANSFER_TYPE_INTERRUPT

\* One pass of the switch: the first case that holds is taken, no fallthrough.
SwitchEnd(rw, end) ==
    IF IsWriterCase(end) THEN [rw EXCEPT !.writer = Some(end.bEndpointAddress)]
    ELSE IF IsReaderCase(end) THEN [rw EXCEPT !.reader = Some(end.bEndpointAddress)]
    ELSE rw

RECURSIVE ClassifyFrom(_, _, _)
ClassifyFrom(es, i, rw) ==
    IF i > Len(es) THEN rw ELSE ClassifyFrom(es, i + 1, SwitchEnd(rw, es[i]))

\* var reader, writer *uint8; for _, end := range ends { switch ... }
ClassifyEnds(es) == ClassifyFrom(es, 1, [reader |-> None, writer |-> None])

\* if reader != nil && writer != nil
Qualifies(rw) == rw.reader # None /\ rw.writer # None

MatchStart ==
    /\ ends \in UNION {[1..n -> EndpointSet] : n \in 0..MaxEnds}
    /\ matched = None

MatchIdle == ends = <<>> /\ matched = None

Classify ==
    /\ matched = None
    /\ matched' = Some(ClassifyEnds(ends))
    /\ UNCHANGED <<ends, evars, dvars>>

NextMatch == Classify

\* ------------------------------------------------------------ the USB bus
\* What the host stack reports: per device its descriptor fields, its port and
\* its configurations; a configuration is its interfaces, an interface its
\* alternate settings, an alternate setting its endpoints.
End(addr, attrs) == [bEndpointAddress |-> addr, bmAttributes |-> attrs]

Bus ==
    << [idVendor |-> 1, idProduct |-> 1, bDeviceClass |-> 0, port |-> 1,
        configs |-> << << << <<End(129, 3), End(1, 3)>> >> >>,
                       << <<>>,
                          << <<End(129, 2), End(1, 2)>>, <<End(1, 3), End(129, 3)>> >> >> >>],
       [idVendor |-> 2, idProduct |-> 2, bDeviceClass |-> LIBUSB_CLASS_HID, port |-> 2,
        configs |-> << << << <<End(129, 3), End(1, 3)>> >> >> >>] >>

\* The arguments callers pass: 0 is the wildcard.
VendorIDs == {0, 2}
ProductIDs == {0, 1}

\* fmt.Sprintf("%x", n) and fmt.Sprintf("%d", n), as sequences of characters.
HexDigits == <<"0", "1", "2", "3", "4", "5", "6", "7", "8", "9", "a", "b", "c", "d", "e", "f">>

RECURSIVE Hex(_)
Hex(n) == IF n < 16 THEN <<HexDigits[n + 1]>> ELSE Append(Hex(n \div 16), HexDigits[(n % 16) + 1])

RECURSIVE Dec(_)
Dec(n) == IF n < 10 THEN <<HexDigits[n + 1]>> ELSE Append(Dec(n \div 10), HexDigits[(n % 10) + 1])

\* fmt.Sprintf("%x:%x:%d", vendorID, uint16(desc.idProduct), port)
PathOf(vendorID, idProduct, port) == Hex(vendorID) \o <<":">> \o Hex(idProduct) \o <<":">> \o Dec(port)

\* infos = append(infos, DeviceInfo{...}); c carries the loop variables in scope.
MkInfo(c, rw) ==
    [Path      |-> PathOf(c.vendorID, c.dev.idProduct, c.dev.port),
     VendorID  |-> c.dev.idVendor,
     ProductID |-> c.dev.idProduct,
     Interface |-> c.ifacenum,
     rawDevice |-> c.rawDevice,
     rawReader |-> rw.reader[1],
     rawWriter |-> rw.writer[1]]

\* for _, alt := range alts
RECURSIVE WalkAlts(_, _, _, _)
WalkAlts(alts, k, c, acc) ==
    IF k > Len(alts) THEN acc
    ELSE LET rw == ClassifyEnds(alts[k])
         IN WalkAlts(alts, k + 1, c, IF Qualifies(rw) THEN Append(acc, MkInfo(c, rw)) ELSE acc)

\* for ifacenum, iface := range ifaces
RECURSIVE WalkIfaces(_, _, _, _)
WalkIfaces(ifaces, i, c, acc) ==
    IF i > Len(ifaces) THEN acc
    ELSE WalkIfaces(ifaces, i + 1, c,
                    IF Len(ifaces[i]) = 0 THEN acc
                    ELSE WalkAlts(ifaces[i], 1, [c EXCEPT !.ifacenum = i - 1], acc))

\* A filter that passes over a device only when both identifiers disagree.
FilteredOutBoth(a, desc) ==
    /\ (a.vendorID > 0 /\ desc.idVendor # a.vendorID)
    /\ (a.productID > 0 /\ desc.idProduct # a.productID)

\* A HID filter that ignores the skipHid argument.
SkippedHidAlways(a, desc) == desc.bDeviceClass = LIBUSB_CLASS_HID

\* The vendor / product filter and the HID filter of the device loop.
FilteredOut(a, desc) ==
    \/ (a.vendorID > 0 /\ desc.idVendor # a.vendorID)
    \/ (a.productID > 0 /\ desc.idProduct # a.productID)

SkippedHid(a, desc) == a.skipHid /\ desc.bDeviceClass = LIBUSB_CLASS_HID

\* ------------------------------------------------------------ enumerateRaw
\* The goroutines that call enumerateRaw concurrently.
Callers == {1, 2}

\* The errors enumerateRaw builds; an index that does not apply is -1.
InitErr == [kind |-> "init", devnum |-> -1, cfgnum |-> -1]
ListErr == [kind |-> "list", devnum |-> -1, cfgnum |-> -1]
\* The device error naming a 1-based index.
DevDescErrOneBased(d) == [kind |-> "device", devnum |-> d + 1, cfgnum |-> -1]
\* fmt.Errorf("failed to get device %d descriptor: %v", devnum, err)
DevDescErr(d) == [kind |-> "device", devnum |-> d, cfgnum |-> -1]
\* fmt.Errorf("failed to get device %d config %d: %v", devnum, cfgnum, err)
CfgDescErr(d, c) == [kind |-> "config", devnum |-> d, cfgnum |-> c]

\* return nil, err
ErrResult(e) == [infos |-> <<>>, err |-> Some(e)]
\* return infos, nil
OkResult(is) == [infos |-> is, err |-> None]

EnumStart ==
    /\ sessions = {} /\ lists = {} /\ liveCfgs = {} /\ freeLog = {}
    /\ listOwner = <<>> /\ listFrees = <<>>
    /\ nextCtx = 1 /\ nextList = 1
    /\ epc = [t \in Callers |-> "idle"]
    /\ callNo = [t \in Callers |-> 0]
    /\ args = [t \in Callers |-> [vendorID |-> 0, productID |-> 0, skipHid |-> FALSE]]
    /\ ctx = [t \in Callers |-> Nil]
    /\ deviceList = [t \in Callers |-> Nil]
    /\ devnum = [t \in Callers |-> 0]
    /\ cfgnum = [t \in Callers |-> 0]
    /\ infos = [t \in Callers |-> <<>>]
    /\ result = [t \in Callers |-> None]
    /\ ret = [t \in Callers |-> None]
    /\ failedAt = [t \in Callers |-> None]
    /\ walked = [t \in Callers |-> {}]
    /\ ncalls = 0

hostvars == <<sessions, lists, listOwner, listFrees, freeLog, liveCfgs, nextCtx, nextList>>

\* A caller enters enumerateRaw(vendorID, productID, skipHid).
EnumCall(t) ==
    /\ UNCHANGED <<mvars, dvars>>
    /\ epc[t] = "idle"
    /\ ncalls < MaxCalls
    /\ \E v \in VendorIDs, p \in ProductIDs, s \in BOOLEAN :
          args' = [args EXCEPT ![t] = [vendorID |-> v, productID |-> p, skipHid |-> s]]
    /\ ncalls' = ncalls + 1
    /\ callNo' = [callNo EXCEPT ![t] = ncalls + 1]
    /\ epc' = [epc EXCEPT ![t] = "init"]
    /\ ctx' = [ctx EXCEPT ![t] = Nil]
    /\ deviceList' = [deviceList EXCEPT ![t] = Nil]
    /\ devnum' = [devnum EXCEPT ![t] = 0]
    /\ cfgnum' = [cfgnum EXCEPT ![t] = 0]
    /\ infos' = [infos EXCEPT ![t] = <<>>]
    /\ result' = [result EXCEPT ![t] = None]
    /\ ret' = [ret EXCEPT ![t] = None]
    /\ failedAt' = [failedAt EXCEPT ![t] = None]
    /\ walked' = [walked EXCEPT ![t] = {}]
    /\ UNCHANGED hostvars

\* errCode := int(C.libusb_init(&ctx)); if errCode < 0 { return nil, ... }
LibusbInit(t) ==
    /\ UNCHANGED <<mvars, dvars>>
    /\ epc[t] = "init"
    /\ \E ok \in BOOLEAN :
          IF ok
          THEN /\ ctx' = [ctx EXCEPT ![t] = nextCtx]
               /\ sessions' = sessions \cup {nextCtx}
               /\ nextCtx' = nextCtx + 1
               /\ epc' = [epc EXCEPT ![t] = "list"]
               /\ UNCHANGED <<result, failedAt>>
          ELSE /\ result' = [result EXCEPT ![t] = Some(ErrResult(InitErr))]
               /\ failedAt' = [failedAt EXCEPT ![t] = Some(<<"init", -1, -1>>)]
               /\ epc' = [epc EXCEPT ![t] = "return"]
               /\ UNCHANGED <<ctx, sessions, nextCtx>>
    /\ UNCHANGED <<lists, listOwner, listFrees, freeLog, liveCfgs, nextList, callNo, args,
                   deviceList, devnum, cfgnum, infos, ret, walked, ncalls>>

\* Where the device loop goes once the device at index d is the next one.
DeviceLoop(t, d, is) ==
    IF d < Len(Bus)
    THEN /\ epc' = [epc EXCEPT ![t] = "dev"]
         /\ result' = result
    ELSE /\ epc' = [epc EXCEPT ![t] = "return"]
         /\ result' = [result EXCEPT ![t] = Some(OkResult(is))]

\* count := C.libusb_get_device_list(ctx, &deviceList); if count < 0 { return nil, ... }
\* defer C.libusb_free_device_list(deviceList, 1)
GetDeviceList(t) ==
    /\ UNCHANGED <<mvars, dvars>>
    /\ epc[t] = "list"
    /\ \E ok \in BOOLEAN :
          IF ok
          THEN /\ deviceList' = [deviceList EXCEPT ![t] = nextList]
               /\ lists' = lists \cup {nextList}
               /\ listOwner' = listOwner @@ (nextList :> <<t, callNo[t]>>)
               /\ listFrees' = listFrees @@ (nextList :> 0)
               /\ nextList' = nextList + 1
               /\ DeviceLoop(t, 0, infos[t])
               /\ UNCHANGED failedAt
          ELSE /\ result' = [result EXCEPT ![t] = Some(ErrResult(ListErr))]
               /\ failedAt' = [failedAt EXCEPT ![t] = Some(<<"list", -1, -1>>)]
               /\ epc' = [epc EXCEPT ![t] = "return"]
               /\ UNCHANGED <<deviceList, lists, listOwner, listFrees, nextList>>
    /\ UNCHANGED <<sessions, freeLog, liveCfgs, nextCtx, callNo, args, ctx, devnum, cfgnum,
                   infos, ret, walked, ncalls>>

\* for devnum, dev := range devices: libusb_get_device_descriptor, then the filters.
GetDeviceDescriptor(t) ==
    /\ UNCHANGED <<mvars, dvars>>
    /\ epc[t] = "dev"
    /\ LET d == devnum[t]
           desc == Bus[d + 1]
       IN \E ok \in BOOLEAN :
            IF ~ok
            THEN /\ result' = [result EXCEPT ![t] = Some(ErrResult(DevDescErr(d)))]
                 /\ failedAt' = [failedAt EXCEPT ![t] = Some(<<"device", d, -1>>)]
                 /\ epc' = [epc EXCEPT ![t] = "return"]
                 /\ UNCHANGED <<devnum, cfgnum, walked>>
            ELSE IF FilteredOut(args[t], desc) \/ SkippedHid(args[t], desc)
            THEN /\ devnum' = [devnum EXCEPT ![t] = d + 1]
                 /\ DeviceLoop(t, d + 1, infos[t])
                 /\ UNCHANGED <<failedAt, cfgnum, walked>>
            ELSE IF Len(desc.configs) = 0
            THEN /\ devnum' = [devnum EXCEPT ![t] = d + 1]
                 /\ DeviceLoop(t, d + 1, infos[t])
                 /\ walked' = [walked EXCEPT ![t] = @ \cup {d}]
                 /\ UNCHANGED <<failedAt, cfgnum>>
            ELSE /\ cfgnum' = [cfgnum EXCEPT ![t] = 0]
                 /\ epc' = [epc EXCEPT ![t] = "cfg"]
                 /\ walked' = [walked EXCEPT ![t] = @ \cup {d}]
                 /\ UNCHANGED <<result, failedAt, devnum>>
    /\ UNCHANGED <<hostvars, callNo, args, ctx, deviceList, infos, ret, ncalls>>

\* for cfgnum := 0; cfgnum < int(desc.bNumConfigurations); cfgnum++:
\* libusb_get_config_descriptor, then the walk over interfaces, alternate
\* settings and endpoints of that configuration.
GetConfigDescriptor(t) ==
    /\ UNCHANGED <<mvars, dvars>>
    /\ epc[t] = "cfg"
    /\ LET d == devnum[t]
           c == cfgnum[t]
           desc == Bus[d + 1]
           scope == [vendorID |-> args[t].vendorID, dev |-> desc,
                     rawDevice |-> <<deviceList[t], d>>, ifacenum |-> 0]
           found == WalkIfaces(desc.configs[c + 1], 1, scope, infos[t])
       IN \E ok \in BOOLEAN :
            IF ~ok
            THEN /\ result' = [result EXCEPT ![t] = Some(ErrResult(CfgDescErr(d, c)))]
                 /\ failedAt' = [failedAt EXCEPT ![t] = Some(<<"config", d, c>>)]
                 /\ epc' = [epc EXCEPT ![t] = "return"]
                 /\ UNCHANGED <<devnum, cfgnum, infos, liveCfgs>>
            ELSE /\ liveCfgs' = liveCfgs \cup {<<ctx[t], d, c>>}
                 /\ infos' = [infos EXCEPT ![t] = found]
                 /\ UNCHANGED failedAt
                 /\ IF c + 1 < Len(desc.configs)
                    THEN /\ cfgnum' = [cfgnum EXCEPT ![t] = c + 1]
                         /\ UNCHANGED <<devnum, epc, result>>
                    ELSE /\ cfgnum' = [cfgnum EXCEPT ![t] = 0]
                         /\ devnum' = [devnum EXCEPT ![t] = d + 1]
                         /\ DeviceLoop(t, d + 1, found)
    /\ UNCHANGED <<sessions, lists, listOwner, listFrees, freeLog, nextCtx, nextList,
                   callNo, args, ctx, deviceList, ret, walked, ncalls>>

\* The list freed at the end of the walk only, not on the error returns.
DeferOnSuccessOnly(t) == deviceList[t] # Nil /\ result[t][1].err = None

\* The deferred call exists once line 48 has run, that is once the list is held.
DeferRegistered(t) == deviceList[t] # Nil

\* deviceList as a package-level variable: the list of whoever listed last.
SharedList(t) == nextList - 1

\* The list the deferred libusb_free_device_list(deviceList, 1) is bound to.
DeferredList(t) == deviceList[t]

\* A return statement completes: the deferred call runs, then the caller gets
\* the return values.
Return(t) ==
    /\ UNCHANGED <<mvars, dvars>>
    /\ epc[t] = "return"
    /\ IF DeferRegistered(t)
       THEN LET l == DeferredList(t)
            IN /\ lists' = lists \ {l}
               /\ listFrees' = [listFrees EXCEPT ![l] = @ + 1]
               /\ freeLog' = freeLog \cup {<<l, t, callNo[t]>>}
       ELSE UNCHANGED <<lists, listFrees, freeLog>>
    /\ ret' = [ret EXCEPT ![t] = result[t]]
    /\ epc' = [epc EXCEPT ![t] = "idle"]
    /\ devnum' = [devnum EXCEPT ![t] = 0]
    /\ cfgnum' = [cfgnum EXCEPT ![t] = 0]
    /\ infos' = [infos EXCEPT ![t] = <<>>]
    /\ result' = [result EXCEPT ![t] = None]
    /\ UNCHANGED <<sessions, listOwner, liveCfgs, nextCtx, nextList, callNo, args, ctx,
                   deviceList, failedAt, walked, ncalls>>

NextEnum ==
    \E t \in Callers :
        \/ EnumCall(t)
        \/ LibusbInit(t)
        \/ GetDeviceList(t)
        \/ GetDeviceDescriptor(t)
        \/ GetConfigDescriptor(t)
        \/ Return(t)

\* ------------------------------------------------------------ RawDevice
\* Two RawDevice instances as openRaw returns them: RawDevice d owns the open
\* libusb handle d, and embeds a DeviceInfo with reader 0x81 and writer 0x01.
RawDevs == {1, 2}
\* The goroutines that use the RawDevices concurrently.
DevThreads == {1, 2}
BufLens == 0..MaxBuf

DevInfo(d) == [rawReader |-> 129, rawWriter |-> 1]

NoCall == [op |-> "none", dev |-> 1, len |-> 0, afterClose |-> FALSE]

DevStart ==
    /\ handle = [d \in RawDevs |-> d]
    /\ lock = [d \in RawDevs |-> Nil]
    /\ openHandles = RawDevs
    /\ closeCount = [h \in RawDevs |-> 0]
    /\ closeReturned = [d \in RawDevs |-> FALSE]
    /\ dpc = [t \in DevThreads |-> "idle"]
    /\ dcall = [t \in DevThreads |-> NoCall]
    /\ xfer = [t \in DevThreads |-> None]
    /\ dres = [t \in DevThreads |-> None]
    /\ hostOut = [t \in DevThreads |-> None]
    /\ nops = 0
    /\ crashed = FALSE

\* A thread calls dev.Close(), dev.Write(b) or dev.Read(b), len(b) = n.
DevCall(t) ==
    /\ UNCHANGED <<evars, mvars>>
    /\ ~crashed
    /\ dpc[t] = "idle"
    /\ nops < MaxOps
    /\ \E d \in RawDevs :
          \/ dcall' = [dcall EXCEPT ![t] = [op |-> "Close", dev |-> d, len |-> 0,
                                            afterClose |-> closeReturned[d]]]
          \/ \E o \in {"Write", "Read"}, n \in BufLens :
                dcall' = [dcall EXCEPT ![t] = [op |-> o, dev |-> d, len |-> n,
                                              afterClose |-> closeReturned[d]]]
    /\ dres' = [dres EXCEPT ![t] = None]
    /\ hostOut' = [hostOut EXCEPT ![t] = None]
    /\ dpc' = [dpc EXCEPT ![t] = "lock"]
    /\ nops' = nops + 1
    /\ UNCHANGED <<handle, lock, xfer, openHandles, closeCount, closeReturned, crashed>>

\* A Lock that returns at once, held or not.
LockIgnored(d) == TRUE

\* One mutex for the whole package: Lock returns only when no RawDevice is in use.
LockFreeEverywhere(d) == \A e \in RawDevs : lock[e] = Nil

\* sync.Mutex: Lock returns only when no one holds the mutex.
LockFree(d) == lock[d] = Nil

\* dev.lock.Lock()
Lock(t) ==
    /\ UNCHANGED <<evars, mvars>>
    /\ ~crashed
    /\ dpc[t] = "lock"
    /\ LockFree(dcall[t].dev)
    /\ lock' = [lock EXCEPT ![dcall[t].dev] = t]
    /\ dpc' = [dpc EXCEPT ![t] = "body"]
    /\ UNCHANGED <<handle, dcall, xfer, dres, hostOut, openHandles, closeCount,
                   closeReturned, nops, crashed>>

\* if dev.handle != nil
CloseNeeded(d) == handle[d] # Nil

\* Close without line 160: the closed handle stays in dev.handle.
HandleKept(h) == h

\* dev.handle = nil
HandleAfterClose(h) == Nil

\* The body of Close: libusb_close on a handle still held, then return nil.
CloseBody(t) ==
    /\ UNCHANGED <<evars, mvars>>
    /\ ~crashed
    /\ dpc[t] = "body"
    /\ dcall[t].op = "Close"
    /\ LET d == dcall[t].dev
           h == handle[d]
       IN IF CloseNeeded(d)
          THEN /\ openHandles' = openHandles \ {h}
               /\ closeCount' = [closeCount EXCEPT ![h] = @ + 1]
               /\ handle' = [handle EXCEPT ![d] = HandleAfterClose(h)]
          ELSE UNCHANGED <<openHandles, closeCount, handle>>
    /\ dres' = [dres EXCEPT ![t] = Some([n |-> 0, err |-> "nil"])]
    /\ dpc' = [dpc EXCEPT ![t] = "unlock"]
    /\ UNCHANGED <<lock, dcall, xfer, hostOut, closeReturned, nops, crashed>>

\* *dev.rawWriter for Write, *dev.rawReader for Read
Endpoint(o, d) == IF o = "Write" THEN DevInfo(d).rawWriter ELSE DevInfo(d).rawReader

\* The body of Write / Read up to the call into the host stack: &b[0] panics on
\* an empty b (the deferred Unlock still runs); otherwise
\* libusb_interrupt_transfer(dev.handle, endpoint, &b[0], len(b), &transferred, 0)
\* is entered with whatever dev.handle holds.
Transfer(t) ==
    /\ UNCHANGED <<evars, mvars>>
    /\ ~crashed
    /\ dpc[t] = "body"
    /\ dcall[t].op \in {"Write", "Read"}
    /\ LET d == dcall[t].dev
       IN IF dcall[t].len = 0
          THEN /\ dres' = [dres EXCEPT ![t] = Some([n |-> 0, err |-> "panic"])]
               /\ dpc' = [dpc EXCEPT ![t] = "unlock"]
               /\ UNCHANGED xfer
          ELSE /\ xfer' = [xfer EXCEPT ![t] = Some([handle |-> handle[d],
                                                     endpoint |-> Endpoint(dcall[t].op, d),
                                                     len |-> dcall[t].len])]
               /\ dpc' = [dpc EXCEPT ![t] = "xfer"]
               /\ UNCHANGED dres
    /\ UNCHANGED <<handle, lock, dcall, hostOut, openHandles, closeCount, closeReturned,
                   nops, crashed>>

\* What libusb_interrupt_transfer can report for a buffer of n bytes: a return
\* code (0, or negative for an error) and the count written to transferred.
HostOutcomes(n) == [rc : {0, -1}, transferred : 0..n]

\* A Write / Read that takes a transfer of no bytes for a failure.
ZeroIsError(o) ==
    IF o.rc < 0 \/ o.transferred = 0 THEN [n |-> 0, err |-> "error"]
    ELSE [n |-> o.transferred, err |-> "nil"]

\* if err := fromRawErrno(...); err != nil { return 0, err }
\* return int(transferred), nil
XferResult(o) ==
    IF o.rc < 0 THEN [n |-> 0, err |-> "error"]
    ELSE [n |-> o.transferred, err |-> "nil"]

\* What Write / Read return when the transfer itself returns: (0, err) on a
\* host-stack error, (transferred, nil) otherwise, transferred <= len(b).
TransferReturns(n) == {XferResult(o) : o \in HostOutcomes(n)}

\* The blocking transfer returns. On an open handle the host stack reports an
\* error or a byte count; on a nil or closed handle the call is undefined in
\* the host stack: it may return anything of the above or kill the process.
TransferDone(t) ==
    /\ UNCHANGED <<evars, mvars>>
    /\ ~crashed
    /\ dpc[t] = "xfer"
    /\ LET x == xfer[t][1]
       IN \/ /\ \E o \in HostOutcomes(x.len) :
                   /\ hostOut' = [hostOut EXCEPT ![t] = Some(o)]
                   /\ dres' = [dres EXCEPT ![t] = Some(XferResult(o))]
             /\ xfer' = [xfer EXCEPT ![t] = None]
             /\ dpc' = [dpc EXCEPT ![t] = "unlock"]
             /\ UNCHANGED crashed
          \/ /\ x.handle \notin openHandles
             /\ crashed' = TRUE
             /\ UNCHANGED <<dres, hostOut, xfer, dpc>>
    /\ UNCHANGED <<handle, lock, dcall, openHandles, closeCount, closeReturned, nops>>

\* An Unlock written at the end of the body: it runs only when the body
\* returns normally and without error.
UnlockAtEnd(r) == r.err = "nil"

\* defer dev.lock.Unlock(): the unlock runs on every way out of the call,
\* whatever r the call returns (a panic included).
UnlockDeferred(r) == TRUE

\* defer dev.lock.Unlock(), then the call returns to its caller.
Unlock(t) ==
    /\ UNCHANGED <<evars, mvars>>
    /\ ~crashed
    /\ dpc[t] = "unlock"
    /\ lock' = IF UnlockDeferred(dres[t][1]) THEN [lock EXCEPT ![dcall[t].dev] = Nil]
               ELSE lock
    /\ dpc' = [dpc EXCEPT ![t] = "idle"]
    /\ closeReturned' = [closeReturned EXCEPT ![dcall[t].dev] = @ \/ dcall[t].op = "Close"]
    /\ hostOut' = [hostOut EXCEPT ![t] = None]
    /\ UNCHANGED <<handle, dcall, xfer, dres, openHandles, closeCount, nops, crashed>>

NextDev ==
    \E t \in DevThreads :
        \/ DevCall(t)
        \/ Lock(t)
        \/ CloseBody(t)
        \/ Transfer(t)
        \/ TransferDone(t)
        \/ Unlock(t)

\* ------------------------------------------------------------ specifications
\* Each specification runs one part of the package from its initial state and
\* leaves the other parts where construction put them.
InitEnum == EnumStart /\ MatchIdle /\ DevStart
InitMatch == EnumStart /\ MatchStart /\ DevStart
InitDev == EnumStart /\ MatchIdle /\ DevStart

SpecEnum == InitEnum /\ [][NextEnum]_vars
SpecMatch == InitMatch /\ [][NextMatch]_vars
SpecDev == InitDev /\ [][NextDev]_vars

\* SpecDev with the scheduling the calls rely on: a goroutine inside Close,
\* Write or Read keeps running (each of its steps is taken if it stays
\* possible), the host stack finishes a transfer it was given, and the mutex
\* is fair (a goroutine waiting in Lock gets the mutex if it is free again and
\* again).
SpecDevFair ==
    /\ InitDev
    /\ [][NextDev]_vars
    /\ \A t \in DevThreads :
          /\ SF_vars(Lock(t))
          /\ WF_vars(CloseBody(t) \/ Transfer(t) \/ TransferDone(t) \/ Unlock(t))

\* ------------------------------------------------------------ claims
Returned(t) == epc[t] = "idle" /\ ret[t] # None

\* C1: once Close has returned on a RawDevice, a later Read or Write (with a
\* non-empty buffer) never enters libusb_interrupt_transfer and returns a
\* "device closed" error.
C1_ClosedDeviceRejectsTransfer ==
    \A t \in DevThreads :
        (dcall[t].op \in {"Write", "Read"} /\ dcall[t].afterClose /\ dcall[t].len > 0)
            => /\ xfer[t] = None
               /\ dres[t] # None => dres[t][1].err = "closed"

\* C2: libusb_close runs at most once per handle, exactly once as soon as dev.handle
\* is nil or a Close has returned, and every Close returns a nil error.
C2_CloseIdempotent ==
    /\ \A d \in RawDevs :
          /\ closeCount[d] <= 1
          /\ (handle[d] = Nil) <=> (closeCount[d] = 1)
          /\ (handle[d] = Nil) <=> (d \notin openHandles)
          /\ closeReturned[d] => closeCount[d] = 1
    /\ \A t \in DevThreads :
          (dcall[t].op = "Close" /\ dres[t] # None) => dres[t][1].err = "nil"

\* A second Close, called after a first one returned, has returned too.
C2_SecondCloseReturned ==
    \E t \in DevThreads :
        /\ dcall[t].op = "Close" /\ dcall[t].afterClose
        /\ dpc[t] = "idle" /\ dres[t] # None
        /\ closeCount[dcall[t].dev] = 1

\* C3: per RawDevice at most one Close / Write / Read is past Lock and before
\* Unlock, and a handle with a transfer in flight is still open.
C3_MutualExclusion ==
    /\ \A d \in RawDevs :
          Cardinality({t \in DevThreads :
                         dpc[t] \in {"body", "xfer", "unlock"} /\ dcall[t].dev = d}) <= 1
    /\ \A t \in DevThreads :
          (xfer[t] # None /\ xfer[t][1].handle # Nil) => xfer[t][1].handle \in openHandles

\* A transfer is in flight on a device while a Close of that device waits for the lock.
C3_CloseWaitsForTransfer ==
    \E t, u \in DevThreads :
        /\ dpc[t] = "xfer" /\ xfer[t][1].handle \in openHandles
        /\ dpc[u] = "lock" /\ dcall[u].op = "Close" /\ dcall[u].dev = dcall[t].dev

\* C5: concurrent enumerateRaw calls hold distinct sessions and distinct lists,
\* a list is only ever freed by the call that acquired it and at most once, and
\* a call that returns an error had a host-stack call of its own fail.
C5_IndependentEnumerations ==
    /\ \A t, u \in Callers :
          t # u => /\ ctx[t] # Nil => ctx[t] # ctx[u]
                   /\ deviceList[t] # Nil => deviceList[t] # deviceList[u]
    /\ \A e \in freeLog : listOwner[e[1]] = <<e[2], e[3]>>
    /\ \A l \in DOMAIN listFrees : listFrees[l] <= 1
    /\ \A t \in Callers :
          (Returned(t) /\ ret[t][1].err # None) => failedAt[t] # None

\* One call has freed its list and returned while another call, which took its
\* list earlier, still holds it.
C5_OverlappingCalls ==
    \E t, u \in Callers :
        /\ t # u
        /\ Returned(t) /\ deviceList[t] # Nil /\ listFrees[deviceList[t]] = 1
        /\ epc[u] \in {"dev", "cfg"} /\ deviceList[u] \in lists
        /\ deviceList[u] < deviceList[t]

\* C6: when enumerateRaw has returned, no config descriptor it obtained is
\* still unreleased.
C6_ConfigDescriptorsReleased ==
    \A t \in Callers : Returned(t) => {x \in liveCfgs : x[1] = ctx[t]} = {}

\* C7: when enumerateRaw has returned, the session it created is released.
C7_SessionReleased ==
    \A t \in Callers : Returned(t) => ctx[t] \notin sessions

\* C8: a list is freed at most once; while the walk runs the list is held; at
\* return an acquired list has been freed exactly once, and a call that never
\* acquired a list has freed nothing.
C8_ListReleasedOnce ==
    /\ \A l \in DOMAIN listFrees : listFrees[l] <= 1
    /\ \A t \in Callers :
          /\ epc[t] \in {"dev", "cfg", "return"} /\ deviceList[t] # Nil
                => deviceList[t] \in lists /\ listFrees[deviceList[t]] = 0
          /\ Returned(t) =>
                IF deviceList[t] # Nil
                THEN listFrees[deviceList[t]] = 1 /\ deviceList[t] \notin lists
                ELSE \A e \in freeLog : ~(e[2] = t /\ e[3] = callNo[t])

\* A call returned an error from inside the walk and its list is freed once.
C8_ErrorPathReleased ==
    \E t \in Callers :
        /\ Returned(t) /\ ret[t][1].err # None
        /\ deviceList[t] # Nil /\ listFrees[deviceList[t]] = 1

\* C9: a call in which a device or config descriptor could not be read returns
\* an error naming that device index (and config index) and no DeviceInfo; no
\* call returns an error together with a non-empty list.
C9_FailFast ==
    \A t \in Callers :
        Returned(t) =>
            LET r == ret[t][1]
            IN /\ (failedAt[t] # None /\ failedAt[t][1][1] \in {"device", "config"})
                     => /\ r.err # None
                        /\ <<r.err[1].kind, r.err[1].devnum, r.err[1].cfgnum>> = failedAt[t][1]
                        /\ r.infos = <<>>
               /\ r.err # None => r.infos = <<>>
               /\ (failedAt[t] = None) <=> (r.err = None)

\* A wildcard call walked device 0 with all its configurations, then failed on
\* device 1, and returned the error.
C9_FailedOnLaterDevice ==
    \E t \in Callers :
        /\ Returned(t) /\ args[t].vendorID = 0
        /\ ret[t][1].err # None /\ ret[t][1].err[1].devnum = 1

\* C10: an alternate setting (endpoints of plain bulk or interrupt type)
\* qualifies exactly when it has an interrupt endpoint with direction IN and an
\* interrupt endpoint with direction OUT.
C10_RawInterfaceIffInterruptPair ==
    (matched # None /\ \A i \in 1..Len(ends) :
                          ends[i].bmAttributes \in {LIBUSB_TRANSFER_TYPE_BULK,
                                                    LIBUSB_TRANSFER_TYPE_INTERRUPT})
        => (Qualifies(matched[1]) <=>
               /\ \E i \in 1..Len(ends) :
                     /\ ends[i].bmAttributes = LIBUSB_TRANSFER_TYPE_INTERRUPT
                     /\ ends[i].bEndpointAddress >= 128
               /\ \E i \in 1..Len(ends) :
                     /\ ends[i].bmAttributes = LIBUSB_TRANSFER_TYPE_INTERRUPT
                     /\ ends[i].bEndpointAddress < 128)

\* The alternate settings of the bus that have an interrupt endpoint of each
\* direction, as (device, configuration, interface, alternate setting) indices.
InterruptPairs ==
    {q \in (0..(Len(Bus) - 1)) \X (0..1) \X (0..1) \X (0..1) :
        /\ q[2] < Len(Bus[q[1] + 1].configs)
        /\ q[3] < Len(Bus[q[1] + 1].configs[q[2] + 1])
        /\ q[4] < Len(Bus[q[1] + 1].configs[q[2] + 1][q[3] + 1])
        /\ LET es == Bus[q[1] + 1].configs[q[2] + 1][q[3] + 1][q[4] + 1]
           IN /\ \E i \in 1..Len(es) :
                    /\ BitAnd(es[i].bmAttributes, 3) = LIBUSB_TRANSFER_TYPE_INTERRUPT
                    /\ es[i].bEndpointAddress >= 128
              /\ \E i \in 1..Len(es) :
                    /\ BitAnd(es[i].bmAttributes, 3) = LIBUSB_TRANSFER_TYPE_INTERRUPT
                    /\ es[i].bEndpointAddress < 128}

\* C11: a call with both identifiers 0 and skipHid false that returns without
\* error returns one DeviceInfo for every alternate setting of the bus that has
\* an interrupt endpoint of each direction: as many entries as there are such
\* settings, and for each of them an entry with its device's identifiers and
\* its interface number.
C11_WildcardReturnsEveryPair ==
    \A t \in Callers :
        (/\ Returned(t) /\ ret[t][1].err = None
         /\ args[t].vendorID = 0 /\ args[t].productID = 0 /\ ~args[t].skipHid)
            => LET is == ret[t][1].infos
               IN /\ Len(is) = Cardinality(InterruptPairs)
                  /\ \A q \in InterruptPairs :
                        \E i \in 1..Len(is) :
                            /\ is[i].VendorID = Bus[q[1] + 1].idVendor
                            /\ is[i].ProductID = Bus[q[1] + 1].idProduct
                            /\ is[i].Interface = q[3]

\* The device indices of the DeviceInfos a caller has built or returned.
InfoDevices(t) ==
    {infos[t][i].rawDevice[2] : i \in 1..Len(infos[t])}
        \cup (IF ret[t] = None THEN {}
              ELSE {ret[t][1].infos[i].rawDevice[2] : i \in 1..Len(ret[t][1].infos)})

\* C12: only devices that agree with every non-zero identifier argument are
\* walked for DeviceInfos, and every DeviceInfo built or returned refers to
\* such a device; an argument of 0 constrains nothing in its field.
C12_FilterExcludesMismatches ==
    \A t \in Callers :
        /\ InfoDevices(t) \subseteq walked[t]
        /\ \A d \in walked[t] :
              /\ args[t].vendorID # 0 => Bus[d + 1].idVendor = args[t].vendorID
              /\ args[t].productID # 0 => Bus[d + 1].idProduct = args[t].productID
        /\ (Returned(t) /\ ret[t][1].err = None /\ ~args[t].skipHid)
              => \A d \in 0..(Len(Bus) - 1) :
                    (/\ args[t].vendorID \in {0, Bus[d + 1].idVendor}
                     /\ args[t].productID \in {0, Bus[d + 1].idProduct}) => d \in walked[t]

\* A call with a non-zero vendor returned without error: it passed over device 0,
\* whose vendor differs, and walked device 1, whose vendor is the one asked for.
C12_MismatchPassedOver ==
    \E t \in Callers :
        /\ Returned(t) /\ ret[t][1].err = None
        /\ args[t].vendorID = 2 /\ args[t].productID = 0 /\ ~args[t].skipHid
        /\ Bus[1].idVendor # 2 /\ 0 \notin walked[t]
        /\ Bus[2].idVendor = 2 /\ 1 \in walked[t]

\* C13: with skipHid true no device of class HID is walked for DeviceInfos and
\* no DeviceInfo refers to one; with skipHid false a device of class HID that
\* passes the identifier filter is walked like any other.
C13_SkipHidExcludesHidClass ==
    \A t \in Callers :
        /\ args[t].skipHid
              => \A d \in walked[t] \cup InfoDevices(t) :
                    Bus[d + 1].bDeviceClass # LIBUSB_CLASS_HID
        /\ (Returned(t) /\ ret[t][1].err = None /\ ~args[t].skipHid)
              => \A d \in 0..(Len(Bus) - 1) :
                    (/\ Bus[d + 1].bDeviceClass = LIBUSB_CLASS_HID
                     /\ args[t].vendorID \in {0, Bus[d + 1].idVendor}
                     /\ args[t].productID \in {0, Bus[d + 1].idProduct}) => d \in walked[t]

\* Two calls with the same identifiers returned without error: the one with
\* skipHid true passed over device 1, of class HID, and the one with skipHid
\* false walked it.
C13_HidSkippedAndKept ==
    /\ Returned(1) /\ ret[1][1].err = None /\ args[1].skipHid
    /\ Returned(2) /\ ret[2][1].err = None /\ ~args[2].skipHid
    /\ args[1].vendorID = 0 /\ args[2].vendorID = 0
    /\ Bus[2].bDeviceClass = LIBUSB_CLASS_HID
    /\ 1 \notin walked[1] /\ 1 \in walked[2]

\* C14: a Write or Read with an empty buffer never enters the host stack and
\* comes back to its caller as a returned precondition error, not as a panic;
\* once it is back the device lock is not held by it.
C14_EmptyBufferRejected ==
    \A t \in DevThreads :
        (dcall[t].op \in {"Write", "Read"} /\ dcall[t].len = 0)
            => /\ xfer[t] = None /\ hostOut[t] = None
               /\ dres[t] # None => dres[t][1] = [n |-> 0, err |-> "precondition"]
               /\ dpc[t] = "idle" => lock[dcall[t].dev] # t

\* C16: when the transfer of a Write or Read has come back from the host stack,
\* a report without error gives the caller the reported byte count and a nil
\* error, however short of len(b) the count is, and the caller gets an error
\* only when the host stack reported one.
C16_ShortTransferIsSuccess ==
    \A t \in DevThreads :
        (dcall[t].op \in {"Write", "Read"} /\ hostOut[t] # None /\ dres[t] # None)
            => /\ hostOut[t][1].rc >= 0
                    => dres[t][1] = [n |-> hostOut[t][1].transferred, err |-> "nil"]
               /\ dres[t][1].err # "nil" => hostOut[t][1].rc < 0

\* A Write or Read of one byte on an open device is returning (0, nil): the
\* host stack reported no error and no byte transferred.
C16_ShortTransferReturned ==
    \E t \in DevThreads :
        /\ dpc[t] = "unlock" /\ dcall[t].op \in {"Write", "Read"} /\ ~dcall[t].afterClose
        /\ dcall[t].len = 1
        /\ hostOut[t] = Some([rc |-> 0, transferred |-> 0])
        /\ dres[t] = Some([n |-> 0, err |-> "nil"])

\* C17: RawDevices are independent of each other. A thread waiting for the lock
\* of its RawDevice can take it whenever that lock is free, whatever is going on
\* on the other RawDevice; the lock of a RawDevice is only ever held by a call
\* on that RawDevice; and a step changes the handle, the lock or the open state
\* of a RawDevice only if it is a step of a call on that RawDevice.
C17_DevicesIndependent ==
    /\ [](\A t \in DevThreads :
             (dpc[t] = "lock" /\ ~crashed /\ lock[dcall[t].dev] = Nil) => ENABLED Lock(t))
    /\ [](\A d \in RawDevs : lock[d] # Nil => dcall[lock[d]].dev = d)
    /\ [][\A d \in RawDevs :
             (\/ handle'[d] # handle[d]
              \/ lock'[d] # lock[d]
              \/ (d \in openHandles) # (d \in openHandles')
              \/ closeCount'[d] # closeCount[d])
                => \E t \in DevThreads : dcall[t].dev = d /\ dpc'[t] # dpc[t]]_vars

\* Thread 1 closed RawDevice 1 while thread 2 was inside a transfer on
\* RawDevice 2: thread 1 holds the lock of RawDevice 1 after its Close body,
\* thread 2 holds the lock of RawDevice 2, which is still open.
C17_BothDevicesInUse ==
    /\ dcall[1].op = "Close" /\ dcall[1].dev = 1 /\ dpc[1] = "unlock"
    /\ handle[1] = Nil /\ lock[1] = 1
    /\ dcall[2].dev = 2 /\ dpc[2] = "xfer" /\ lock[2] = 2
    /\ handle[2] # Nil /\ 2 \in openHandles

\* C18: an endpoint counts as an interrupt endpoint exactly when the low two
\* bits of its attributes equal the interrupt type, whatever its other
\* attribute bits are, and bit 0x80 of its address alone decides its direction:
\* after the switch has run over the endpoints, some endpoint was taken as
\* reader or writer exactly when one of them is an interrupt endpoint, a writer
\* was found exactly when one of them is an interrupt endpoint with bit 0x80
\* clear, and a reader exactly when one is an interrupt endpoint with bit 0x80
\* set.
C18_InterruptByMaskedTypeBits ==
    matched # None
        => LET IsInterrupt(e) == BitAnd(e.bmAttributes, 3) = LIBUSB_TRANSFER_TYPE_INTERRUPT
               IsIn(e) == BitAnd(e.bEndpointAddress, 128) = 128
               rw == matched[1]
           IN /\ (rw.reader # None \/ rw.writer # None)
                    <=> \E i \in 1..Len(ends) : IsInterrupt(ends[i])
              /\ rw.writer # None
                    <=> \E i \in 1..Len(ends) : IsInterrupt(ends[i]) /\ ~IsIn(ends[i])
              /\ rw.reader # None
                    <=> \E i \in 1..Len(ends) : IsInterrupt(ends[i]) /\ IsIn(ends[i])

\* C20: the handle and the open state of a RawDevice change only in the body
\* of a Close on it, which leaves it closed with a nil handle; a step of a
\* Write or Read, successful or not, changes neither; and a closed RawDevice
\* never becomes open again.
C20_OnlyCloseChangesLifecycle ==
    [][\A d \in RawDevs :
          /\ (handle'[d] # handle[d] \/ (d \in openHandles) # (d \in openHandles'))
                => /\ \E t \in DevThreads :
                         /\ dcall[t].op = "Close" /\ dcall[t].dev = d
                         /\ dpc[t] = "body" /\ dpc'[t] = "unlock"
                   /\ handle'[d] = Nil /\ d \notin openHandles'
          /\ \A t \in DevThreads :
                (dcall[t].op \in {"Write", "Read"} /\ dcall[t].dev = d /\ dpc'[t] # dpc[t]
                    /\ dpc[t] # "idle")
                    => handle'[d] = handle[d] /\ (d \in openHandles) = (d \in openHandles')
          /\ handle[d] = Nil => handle'[d] = Nil
          /\ d \notin openHandles => d \notin openHandles']_vars

\* A Write or Read on RawDevice 1 returned after a Close of it had returned and
\* the device is still closed, while a Write or Read on RawDevice 2 came back
\* with an error and left that device open.
C20_TransfersLeftStateAlone ==
    /\ dcall[1].op \in {"Write", "Read"} /\ dcall[1].dev = 1 /\ dcall[1].afterClose
    /\ dpc[1] = "idle" /\ dres[1] # None
    /\ handle[1] = Nil /\ 1 \notin openHandles
    /\ dcall[2].op \in {"Write", "Read"} /\ dcall[2].dev = 2
    /\ dpc[2] = "idle" /\ dres[2] = Some([n |-> 0, err |-> "error"])
    /\ handle[2] = 2 /\ 2 \in openHandles

\* C19: Close, Write and Read release the device lock on every way out, so the
\* lock of a RawDevice is free whenever no call on it is past Lock; and with
\* transfers that return and a fair lock, every call that was started returns
\* and a Close has left its RawDevice with a nil handle when it returns. (A
\* transfer that kills the process never returns; the claim assumes it away.)
C19_LockReleasedCallsReturn ==
    /\ [](\A d \in RawDevs :
             (\A t \in DevThreads :
                 ~(dcall[t].dev = d /\ dpc[t] \in {"body", "xfer", "unlock"}))
                => lock[d] = Nil)
    /\ \A t \in DevThreads :
          (dpc[t] # "idle")
              ~> \/ crashed
                 \/ /\ dpc[t] = "idle"
                    /\ dcall[t].op = "Close" => handle[dcall[t].dev] = Nil

\* A Write with an empty buffer paniced on RawDevice 1 and a Read on it came
\* back with a host-stack error; both are back at their callers and the lock of
\* RawDevice 1 is free.
C19_FailedCallsLeftLockFree ==
    /\ dcall[1].dev = 1 /\ dcall[2].dev = 1
    /\ dpc[1] = "idle" /\ dpc[2] = "idle"
    /\ {dres[1], dres[2]} = {Some([n |-> 0, err |-> "panic"]), Some([n |-> 0, err |-> "error"])}
    /\ lock[1] = Nil

====
